---------------------------- MODULE Spec2Model ----------------------------
(***************************************************************************)
(* A model of the boundary store (geo_data_loader.py), the containment     *)
(* engine and region resolver (coordinate_query.py) and the spatial range  *)
(* engine (vehicle_tracker.py).                                            *)
(*                                                                         *)
(* The specifications share the variables.  Spec, SpecLoad, SpecShapes,    *)
(* SpecRead and SpecReaders run the loader and its readers call by call    *)
(* (SpecRead on a source that fails part-way), SpecRace runs load() in     *)
(* several threads line by line, and SpecEngine, SpecGeometry, SpecDms,    *)
(* SpecRange and SpecBbox apply one function to arguments drawn in their   *)
(* initial states.  SpecGeometry also calls the copy of point_in_polygon   *)
(* in pg_simple_query.py.                                                  *)
(*                                                                         *)
(* Coordinates of the boundary data are integers of a small grid.  On      *)
(* integers the floating-point expression of point_in_polygon,             *)
(*     lon < (xj - xi) * (lat - yi) / (yj - yi) + xi,                      *)
(* has the value of the exact rational comparison (a correctly rounded     *)
(* quotient and sum cannot cross an integer), so it is modelled by         *)
(* cross-multiplication with the sign of (yj - yi).                        *)
(*                                                                         *)
(* Python's None is the empty tuple and a present value v is <<v>>.        *)
(* A text that Python parses with int()/float() is a record                *)
(* [ok, v]: ok = FALSE is a text on which the conversion raises            *)
(* ValueError.  A string that the code splits is the sequence of its       *)
(* pieces (characters for ext_path, tokens for the coordinate texts).      *)
(***************************************************************************)
EXTENDS Integers, Sequences, FiniteSets, TLC

VARIABLES
    source,     \* the rows csv.reader yields from csv_path, in file order
    srcOpen,    \* TRUE iff open(csv_path) succeeds
    regions,    \* GeoDataLoader.regions: the dict's values in key order
    provinces,  \* GeoDataLoader.provinces (deep = 0)
    cities,     \* GeoDataLoader.cities    (deep = 1)
    districts,  \* GeoDataLoader.districts (deep = 2)
    loaded,     \* GeoDataLoader._loaded
    hasQuery,   \* TRUE iff a CoordinateQuery has been constructed
    tracks,     \* the rows of table tracks
    op,         \* the last call: its name ("env": the environment moved),
    arg,        \*   its arguments,
    ret,        \*   what it returned (<<>> when it raised),
    outcome,    \*   "ok" or "error" (an exception reached the caller),
    opens,      \*   and how many times it called open(csv_path)
    pc,         \* of each thread inside load(): the line it stands at
    pos         \* of each thread inside load(): the row its reader is at

vars == <<source, srcOpen, regions, provinces, cities, districts, loaded,
          hasQuery, tracks, op, arg, ret, outcome, opens, pc, pos>>

storeVars == <<regions, provinces, cities, districts, loaded>>

---------------------------------------------------------------------------
(* Bounds *)

MaxRows == 2        \* records in the boundary source
GridMax == 3        \* grid coordinates are 0..GridMax
MaxRings == 2       \* rings of a directly constructed Region
MaxThreads == 2     \* threads that call load() on one loader

Threads == 1..MaxThreads

Coord == 0..GridMax
Points == Coord \X Coord

None == <<>>
Some(v) == <<v>>

\* No thread is inside load().
NoThreads ==
    /\ pc = [t \in Threads |-> "idle"]
    /\ pos = [t \in Threads |-> 0]

Num(v) == [ok |-> TRUE, v |-> v]
BadNum == [ok |-> FALSE, v |-> 0]

---------------------------------------------------------------------------
(* Containment engine: coordinate_query.py *)

\* The division evaluated for every edge.
InterpolatedAlways(lat, vi, vj) == TRUE

\* The `and` of lines 39-40 evaluates its right operand, and with it the
\* division by (yj - yi), only when its left operand is true.
Interpolated(lat, vi, vj) == (vi[2] > lat) # (vj[2] > lat)

\* One edge (vi, vj) of the ray cast: the test of lines 39-40.
EdgeCrosses(lon, lat, vi, vj) ==
    LET xi == vi[1]
        yi == vi[2]
        xj == vj[1]
        yj == vj[2]
    IN  /\ Interpolated(lat, vi, vj)
        /\ IF yj - yi > 0
           THEN (lon - xi) * (yj - yi) < (xj - xi) * (lat - yi)
           ELSE (lon - xi) * (yj - yi) > (xj - xi) * (lat - yi)

\* The loop of lines 33-43 from index i on, j the previous index.
RECURSIVE RayCast(_, _, _, _, _, _)
RayCast(lon, lat, polygon, i, j, inside) ==
    IF i > Len(polygon) THEN inside
    ELSE RayCast(lon, lat, polygon, i + 1, i,
                 IF EdgeCrosses(lon, lat, polygon[i], polygon[j])
                 THEN ~inside ELSE inside)

\* The loop without the edge from the last vertex back to the first.
point_in_polygon_nowrap(lon, lat, polygon) ==
    IF Len(polygon) < 3 THEN FALSE
    ELSE RayCast(lon, lat, polygon, 2, 1, FALSE)

point_in_polygon(lon, lat, polygon) ==
    IF Len(polygon) < 3 THEN FALSE
    ELSE RayCast(lon, lat, polygon, 1, Len(polygon), FALSE)

\* ZeroDivisionError in the loop of lines 33-43: the division is evaluated
\* for an edge (polygon[i], polygon[j]) with yj - yi = 0.
DividesByZero(lat, polygon) ==
    \E i \in 1..Len(polygon) :
        LET j == IF i = 1 THEN Len(polygon) ELSE i - 1
        IN  /\ Interpolated(lat, polygon[i], polygon[j])
            /\ polygon[j][2] - polygon[i][2] = 0

\* point_in_polygon raises instead of returning.
point_in_polygon_raises(lon, lat, polygon) ==
    Len(polygon) >= 3 /\ DividesByZero(lat, polygon)

\* The copy of pg_simple_query.py, which has no test of n < 3: with no
\* vertex the loop has no pass, with one the edge runs from the vertex to
\* itself.
pg_point_in_polygon(lng, lat, polygon) ==
    RayCast(lng, lat, polygon, 1, Len(polygon), FALSE)

pg_point_in_polygon_raises(lng, lat, polygon) == DividesByZero(lat, polygon)

\* The box without its upper edges.
point_in_bbox_halfopen(lon, lat, bbox) ==
    /\ bbox[1] <= lon
    /\ lon < bbox[3]
    /\ bbox[2] <= lat
    /\ lat < bbox[4]

point_in_bbox(lon, lat, bbox) ==
    /\ bbox[1] <= lon
    /\ lon <= bbox[3]
    /\ bbox[2] <= lat
    /\ lat <= bbox[4]

\* The bounding-box filter dropped: any ring decides.
point_in_region_nobox(lon, lat, region) ==
    \E k \in 1..Len(region.polygons) :
        point_in_polygon(lon, lat, region.polygons[k])

\* Only the first ring looked at.
point_in_region_firstring(lon, lat, region) ==
    /\ region.bbox # None
    /\ point_in_bbox(lon, lat, region.bbox)
    /\ Len(region.polygons) > 0
    /\ point_in_polygon(lon, lat, region.polygons[1])

point_in_region(lon, lat, region) ==
    IF region.bbox = None THEN FALSE
    ELSE IF ~point_in_bbox(lon, lat, region.bbox) THEN FALSE
    ELSE \E k \in 1..Len(region.polygons) :
            point_in_polygon(lon, lat, region.polygons[k])

---------------------------------------------------------------------------
(* Boundary store: geo_data_loader.py *)

Min(a, b) == IF a <= b THEN a ELSE b
Max(a, b) == IF a >= b THEN a ELSE b

\* The maxima are left as the first point set them.
EnvelopeMinOnly(box, lon, lat) ==
    IF box = None THEN <<lon, lat, lon, lat>>
    ELSE <<Min(box[1], lon), Min(box[2], lat), box[3], box[4]>>

\* min_lon, min_lat, max_lon, max_lat after one more point (lines 103-106);
\* None stands for the initial (inf, inf, -inf, -inf).
Envelope(box, lon, lat) ==
    IF box = None THEN <<lon, lat, lon, lat>>
    ELSE <<Min(box[1], lon), Min(box[2], lat), Max(box[3], lon), Max(box[4], lat)>>

\* The loop over the coordinate texts of one part (lines 95-106).  A text
\* that does not split into two pieces is passed over; a piece float()
\* rejects raises ValueError (err), after the earlier points were counted.
RECURSIVE ParseCoords(_, _, _, _)
ParseCoords(coords, i, points, box) ==
    IF i > Len(coords) THEN [points |-> points, box |-> box, err |-> FALSE]
    ELSE LET xy == coords[i]
         IN  IF Len(xy) # 2 THEN ParseCoords(coords, i + 1, points, box)
             ELSE IF ~xy[1].ok \/ ~xy[2].ok
                  THEN [points |-> points, box |-> box, err |-> TRUE]
             ELSE ParseCoords(coords, i + 1,
                              Append(points, <<xy[1].v, xy[2].v>>),
                              Envelope(box, xy[1].v, xy[2].v))

\* The loop over the parts (lines 85-109).  A part is the sequence of its
\* '~'-separated pieces, of which only the first, the outer ring, is read.
\* The ValueError is caught outside the loop (line 110): it ends the parse
\* and keeps the polygons and the min/max gathered so far.
RECURSIVE ParseParts(_, _, _, _)
ParseParts(parts, i, polygons, box) ==
    IF i > Len(parts) THEN [polygons |-> polygons, box |-> box]
    ELSE LET r == ParseCoords(parts[i][1], 1, <<>>, box)
         IN  IF r.err THEN [polygons |-> polygons, box |-> r.box]
             ELSE ParseParts(parts, i + 1,
                             IF Len(r.points) >= 3
                             THEN Append(polygons, r.points) ELSE polygons,
                             r.box)

\* The box is returned whether or not a ring was kept.
parse_polygon_boxalways(field) ==
    IF field = <<>> THEN [polygons |-> <<>>, bbox |-> None]
    ELSE LET r == ParseParts(field, 1, <<>>, None)
         IN  [polygons |-> r.polygons, bbox |-> r.box]

\* field = <<>> is the empty text or 'EMPTY'.
parse_polygon(field) ==
    IF field = <<>> THEN [polygons |-> <<>>, bbox |-> None]
    ELSE LET r == ParseParts(field, 1, <<>>, None)
         IN  [polygons |-> r.polygons,
              bbox |-> IF r.polygons # <<>> THEN r.box ELSE None]

\* geo is the sequence of the ' '-separated pieces; <<>> is '' or 'EMPTY'.
parse_center(geo) ==
    IF Len(geo) = 2 /\ geo[1].ok /\ geo[2].ok
    THEN Some(<<geo[1].v, geo[2].v>>)
    ELSE None

\* self.regions[region_id] = region: a dict keeps the place of a key it has.
DictPut(regs, region) ==
    IF \E k \in 1..Len(regs) : regs[k].id = region.id
    THEN [k \in 1..Len(regs) |->
            IF regs[k].id = region.id THEN region ELSE regs[k]]
    ELSE Append(regs, region)

\* A center that float() rejects rejects the record as well.
ProcessRowStrict(st, row) ==
    IF Len(row) < 6 THEN st
    ELSE IF ~row[1].ok \/ ~row[2].ok \/ ~row[3].ok THEN st
    ELSE IF \E k \in 1..Len(row[6]) : ~row[6][k].ok THEN st
    ELSE LET deep == row[3].v
             parsed == parse_polygon(IF Len(row) > 6 THEN row[7] ELSE <<>>)
             region == [id |-> row[1].v, pid |-> row[2].v, deep |-> deep,
                        name |-> row[4], ext_path |-> row[5],
                        center |-> parse_center(row[6]),
                        bbox |-> parsed.bbox, polygons |-> parsed.polygons]
         IN  [regions |-> DictPut(st.regions, region),
              provinces |-> IF deep = 0 THEN Append(st.provinces, region)
                            ELSE st.provinces,
              cities |-> IF deep = 1 THEN Append(st.cities, region)
                         ELSE st.cities,
              districts |-> IF deep = 2 THEN Append(st.districts, region)
                            ELSE st.districts]

\* A record whose polygon text yields no ring is passed over.
ProcessRowNeedsRing(st, row) ==
    IF Len(row) < 6 THEN st
    ELSE IF ~row[1].ok \/ ~row[2].ok \/ ~row[3].ok THEN st
    ELSE LET deep == row[3].v
             parsed == parse_polygon(IF Len(row) > 6 THEN row[7] ELSE <<>>)
             region == [id |-> row[1].v, pid |-> row[2].v, deep |-> deep,
                        name |-> row[4], ext_path |-> row[5],
                        center |-> parse_center(row[6]),
                        bbox |-> parsed.bbox, polygons |-> parsed.polygons]
         IN  IF Len(row) > 6 /\ row[7] # <<>> /\ parsed.polygons = <<>>
             THEN st
             ELSE [regions |-> DictPut(st.regions, region),
              provinces |-> IF deep = 0 THEN Append(st.provinces, region)
                            ELSE st.provinces,
              cities |-> IF deep = 1 THEN Append(st.cities, region)
                         ELSE st.cities,
              districts |-> IF deep = 2 THEN Append(st.districts, region)
                            ELSE st.districts]

\* The body of the loop over the rows (lines 129-165); st is the store.
ProcessRow(st, row) ==
    IF Len(row) < 6 THEN st
    ELSE IF ~row[1].ok \/ ~row[2].ok \/ ~row[3].ok THEN st
    ELSE LET deep == row[3].v
             parsed == parse_polygon(IF Len(row) > 6 THEN row[7] ELSE <<>>)
             region == [id |-> row[1].v, pid |-> row[2].v, deep |-> deep,
                        name |-> row[4], ext_path |-> row[5],
                        center |-> parse_center(row[6]),
                        bbox |-> parsed.bbox, polygons |-> parsed.polygons]
         IN  [regions |-> DictPut(st.regions, region),
              provinces |-> IF deep = 0 THEN Append(st.provinces, region)
                            ELSE st.provinces,
              cities |-> IF deep = 1 THEN Append(st.cities, region)
                         ELSE st.cities,
              districts |-> IF deep = 2 THEN Append(st.districts, region)
                            ELSE st.districts]

RECURSIVE ReadRows(_, _, _)
ReadRows(st, rows, i) ==
    IF i > Len(rows) THEN st
    ELSE ReadRows(ProcessRow(st, rows[i]), rows, i + 1)

Store == [regions |-> regions, provinces |-> provinces,
          cities |-> cities, districts |-> districts]

---------------------------------------------------------------------------
(* Region resolver: CoordinateQuery.query *)

\* str.split(): the maximal runs of non-blank characters of s, in order.
RECURSIVE SplitFrom(_, _, _, _)
SplitFrom(s, i, cur, acc) ==
    IF i > Len(s) THEN (IF cur = <<>> THEN acc ELSE Append(acc, cur))
    ELSE IF s[i] = " "
         THEN SplitFrom(s, i + 1, <<>>,
                        IF cur = <<>> THEN acc ELSE Append(acc, cur))
    ELSE SplitFrom(s, i + 1, Append(cur, s[i]), acc)

split(s) == SplitFrom(s, 1, <<>>, <<>>)

\* The scan that keeps going and reports the last region that matches.
RECURSIVE ScanLast(_, _, _, _)
ScanLast(lon, lat, list, k) ==
    IF k > Len(list) THEN 0
    ELSE LET later == ScanLast(lon, lat, list, k + 1)
         IN  IF later # 0 THEN later
             ELSE IF point_in_region(lon, lat, list[k]) THEN k
             ELSE 0

\* A for loop of lines 132, 148 and 161 from index k on: the index of the
\* region at which it returns, 0 when it runs to its end.
RECURSIVE Scan(_, _, _, _)
Scan(lon, lat, list, k) ==
    IF k > Len(list) THEN 0
    ELSE IF point_in_region(lon, lat, list[k]) THEN k
    ELSE Scan(lon, lat, list, k + 1)

EmptyResult == [province |-> None, city |-> None, district |-> None,
                full_path |-> None, region |-> None]

\* The tokens read one place too far: parts[1] and parts[2] of Python.
DistrictResultShifted(district) ==
    LET parts == split(district.ext_path)
    IN  [province |-> IF Len(parts) >= 2 THEN Some(parts[2]) ELSE None,
         city |-> IF Len(parts) >= 3 THEN Some(parts[3]) ELSE None,
         district |-> Some(district.name),
         full_path |-> Some(district.ext_path),
         region |-> Some(district)]

DistrictResult(district) ==
    LET parts == split(district.ext_path)
    IN  [province |-> IF Len(parts) >= 1 THEN Some(parts[1]) ELSE None,
         city |-> IF Len(parts) >= 2 THEN Some(parts[2]) ELSE None,
         district |-> Some(district.name),
         full_path |-> Some(district.ext_path),
         region |-> Some(district)]

CityResult(city) ==
    LET parts == split(city.ext_path)
    IN  [province |-> IF Len(parts) >= 1 THEN Some(parts[1]) ELSE None,
         city |-> Some(city.name),
         district |-> None,
         full_path |-> Some(city.ext_path),
         region |-> Some(city)]

ProvinceResult(province) ==
    [province |-> Some(province.name), city |-> None, district |-> None,
     full_path |-> Some(province.ext_path), region |-> Some(province)]

\* The stages in the order city, district, province.
queryCityFirst(lon, lat, st) ==
    LET d == Scan(lon, lat, st.districts, 1)
        c == Scan(lon, lat, st.cities, 1)
        p == Scan(lon, lat, st.provinces, 1)
    IN  IF c # 0 THEN CityResult(st.cities[c])
        ELSE IF d # 0 THEN DistrictResult(st.districts[d])
        ELSE IF p # 0 THEN ProvinceResult(st.provinces[p])
        ELSE EmptyResult

\* The province stage left out.
queryNoProvince(lon, lat, st) ==
    LET d == Scan(lon, lat, st.districts, 1)
        c == Scan(lon, lat, st.cities, 1)
    IN  IF d # 0 THEN DistrictResult(st.districts[d])
        ELSE IF c # 0 THEN CityResult(st.cities[c])
        ELSE EmptyResult

query(lon, lat, st) ==
    LET d == Scan(lon, lat, st.districts, 1)
        c == Scan(lon, lat, st.cities, 1)
        p == Scan(lon, lat, st.provinces, 1)
    IN  IF d # 0 THEN DistrictResult(st.districts[d])
        ELSE IF c # 0 THEN CityResult(st.cities[c])
        ELSE IF p # 0 THEN ProvinceResult(st.provinces[p])
        ELSE EmptyResult

---------------------------------------------------------------------------
(* GeoDataLoader.load, as a function of the store st, the _loaded flag, the
   rows of the source and whether open() succeeds.  open() raising
   (FileNotFoundError, PermissionError) leaves the method at line 126. *)

\* A stretch of the file that is not UTF-8: reading it, the reader raises
\* UnicodeDecodeError in `for row in reader` (line 128), which stands
\* outside the try of lines 132-165.
UndecodableRow == <<"\\xff">>

Undecodable(row) == Len(row) = 1 /\ row[1] = "\\xff"

\* The rows the reader delivers before it raises, all of them if it does not.
Delivered(rows) ==
    LET bad == {i \in 1..Len(rows) : Undecodable(rows[i])}
    IN  IF bad = {} THEN rows
        ELSE SubSeq(rows, 1, (CHOOSE i \in bad : \A j \in bad : i <= j) - 1)

\* load without the test of _loaded at its head.
loadAlways(st, isLoaded, rows, canOpen) ==
    IF ~canOpen
    THEN [st |-> st, loaded |-> isLoaded, outcome |-> "error", opens |-> 1]
    ELSE [st |-> ReadRows(st, rows, 1), loaded |-> TRUE, outcome |-> "ok",
          opens |-> 1]

\* load that swallows the failure of open() and sets _loaded all the same.
loadSwallows(st, isLoaded, rows, canOpen) ==
    IF isLoaded
    THEN [st |-> st, loaded |-> TRUE, outcome |-> "ok", opens |-> 0]
    ELSE IF ~canOpen
    THEN [st |-> st, loaded |-> TRUE, outcome |-> "ok", opens |-> 1]
    ELSE [st |-> ReadRows(st, rows, 1), loaded |-> TRUE, outcome |-> "ok",
          opens |-> 1]

load(st, isLoaded, rows, canOpen) ==
    IF isLoaded
    THEN [st |-> st, loaded |-> TRUE, outcome |-> "ok", opens |-> 0]
    ELSE IF ~canOpen
    THEN [st |-> st, loaded |-> FALSE, outcome |-> "error", opens |-> 1]
    ELSE IF Delivered(rows) # rows
    THEN [st |-> ReadRows(st, Delivered(rows), 1), loaded |-> FALSE,
          outcome |-> "error", opens |-> 1]
    ELSE [st |-> ReadRows(st, rows, 1), loaded |-> TRUE, outcome |-> "ok",
          opens |-> 1]

---------------------------------------------------------------------------
(* The boundary sources the model reads *)

SqA == <<<<0, 0>>, <<2, 0>>, <<2, 2>>, <<0, 2>>>>
SqB == <<<<1, 1>>, <<3, 1>>, <<3, 3>>, <<1, 3>>>>
SqC == <<<<2, 2>>, <<3, 2>>, <<3, 3>>, <<2, 3>>>>
Tri == <<<<0, 0>>, <<3, 0>>, <<0, 3>>>>
Seg == <<<<3, 3>>, <<3, 0>>>>

\* The text "lon lat,lon lat,..." of a ring, split at ',' and ' '.
RingText(ring) == [k \in 1..Len(ring) |-> <<Num(ring[k][1]), Num(ring[k][2])>>]

\* A polygon field is the sequence of its ';'-separated parts, a part the
\* sequence of its '~'-separated pieces.
Part(ring) == <<RingText(ring)>>

ShapeField(shape) ==
    CASE shape = 1 -> <<Part(SqA)>>
      [] shape = 2 -> <<Part(SqB)>>
      [] shape = 3 -> <<Part(SqA), Part(SqC)>>

LevelChar(deep) == CASE deep = 0 -> "P" [] deep = 1 -> "C" [] deep = 2 -> "D"
                     [] OTHER -> "X"
ShapeChar(shape) == CASE shape = 1 -> "1" [] shape = 2 -> "2" [] shape = 3 -> "3"
                      [] OTHER -> "9"

NameOf(shape, deep) == <<LevelChar(deep), ShapeChar(shape)>>

\* "P1", "P1 C1", "P1 C1 D1" for shape 1; one token after a blank for
\* shape 2; a blank text for shape 3.
RECURSIVE FullPath(_, _)
FullPath(shape, deep) ==
    IF deep = 0 THEN NameOf(shape, 0)
    ELSE FullPath(shape, deep - 1) \o <<" ">> \o NameOf(shape, deep)

PathOf(shape, deep) ==
    CASE shape = 1 -> FullPath(shape, deep)
      [] shape = 2 -> <<" ">> \o NameOf(shape, 0)
      [] shape = 3 -> <<" ">>

BaseRow(shape, deep) ==
    <<Num(shape), Num(deep), Num(deep), NameOf(shape, deep),
      PathOf(shape, deep), <<Num(1), Num(1)>>, ShapeField(shape)>>

BaseRows == {BaseRow(shape, deep) : shape \in 1..3, deep \in 0..2}

\* Records that are short, malformed or unusual.
FiveFieldRow == <<Num(4), Num(0), Num(2), NameOf(4, 2), FullPath(4, 2)>>
BadIdRow == <<BadNum, Num(0), Num(2), NameOf(4, 2), FullPath(4, 2), <<>>,
              <<Part(SqA)>>>>
NoPolygonRow == <<Num(4), Num(1), Num(2), NameOf(4, 2), FullPath(4, 2), <<>>>>
SegThenRingRow == <<Num(5), Num(0), Num(1), NameOf(5, 1), FullPath(5, 1), <<>>,
                    <<Part(Seg), Part(SqA)>>>>
SpecialRows == {FiveFieldRow, BadIdRow, NoPolygonRow, SegThenRingRow}

RowPool == BaseRows \cup SpecialRows

SeqsUpTo(S, n) == UNION {[1..k -> S] : k \in 0..n}

Sources == SeqsUpTo(RowPool, MaxRows)

EmptyStore == [regions |-> <<>>, provinces |-> <<>>, cities |-> <<>>,
               districts |-> <<>>]

---------------------------------------------------------------------------
(* The boundary store and the resolver as a state machine *)

Init ==
    /\ source \in Sources
    /\ srcOpen \in BOOLEAN
    /\ regions = <<>>
    /\ provinces = <<>>
    /\ cities = <<>>
    /\ districts = <<>>
    /\ loaded = FALSE
    /\ hasQuery = FALSE
    /\ tracks = <<>>
    /\ NoThreads
    /\ op = "init"
    /\ arg = <<>>
    /\ ret = <<>>
    /\ outcome = "ok"
    /\ opens = 0

\* What a call of loader.load() does to the loader.
LoadEffect ==
    LET r == load(Store, loaded, source, srcOpen)
    IN  /\ regions' = r.st.regions
        /\ provinces' = r.st.provinces
        /\ cities' = r.st.cities
        /\ districts' = r.st.districts
        /\ loaded' = r.loaded
        /\ outcome' = r.outcome
        /\ opens' = r.opens

\* loader.load()
Load ==
    /\ LoadEffect
    /\ op' = "load"
    /\ arg' = <<>>
    /\ ret' = <<>>
    /\ UNCHANGED <<source, srcOpen, hasQuery, tracks, pc, pos>>

\* CoordinateQuery(loader): line 102 loads; the object exists if load returns.
NewQuery ==
    /\ LoadEffect
    /\ hasQuery' = (hasQuery \/ outcome' = "ok")
    /\ op' = "CoordinateQuery"
    /\ arg' = <<>>
    /\ ret' = <<>>
    /\ UNCHANGED <<source, srcOpen, tracks, pc, pos>>

\* A query that moves the district it matched to the head of the list, for
\* the next call to find it sooner.
QueryMoveToFront(lon, lat) ==
    LET d == Scan(lon, lat, districts, 1)
    IN  /\ hasQuery
        /\ op' = "query"
        /\ arg' = <<lon, lat>>
        /\ ret' = query(lon, lat, Store)
        /\ outcome' = "ok"
        /\ opens' = 0
        /\ districts' = IF d = 0 THEN districts
                        ELSE <<districts[d]>> \o SubSeq(districts, 1, d - 1)
                             \o SubSeq(districts, d + 1, Len(districts))
        /\ UNCHANGED <<source, srcOpen, regions, provinces, cities, loaded,
                       hasQuery, tracks, pc, pos>>

\* query.query(lon, lat)
Query(lon, lat) ==
    /\ hasQuery
    /\ op' = "query"
    /\ arg' = <<lon, lat>>
    /\ ret' = query(lon, lat, Store)
    /\ outcome' = "ok"
    /\ opens' = 0
    /\ UNCHANGED <<source, srcOpen, storeVars, hasQuery, tracks, pc, pos>>

\* The environment rewrites the file and leaves no record in it.
SourceTruncate ==
    /\ source # <<>>
    /\ source' = <<>>
    /\ op' = "env"
    /\ arg' = <<>>
    /\ ret' = <<>>
    /\ outcome' = "ok"
    /\ opens' = 0
    /\ UNCHANGED <<srcOpen, storeVars, hasQuery, tracks, pc, pos>>

\* The environment removes the file or puts it back.
SourceToggle ==
    /\ srcOpen' = ~srcOpen
    /\ op' = "env"
    /\ arg' = <<>>
    /\ ret' = <<>>
    /\ outcome' = "ok"
    /\ opens' = 0
    /\ UNCHANGED <<source, storeVars, hasQuery, tracks, pc, pos>>

Next ==
    \/ Load
    \/ NewQuery
    \/ \E p \in Points : Query(p[1], p[2])
    \/ SourceTruncate
    \/ SourceToggle

Spec == Init /\ [][Next]_vars

---------------------------------------------------------------------------
(* The containment engine on directly constructed Region objects *)

RingPool == {SqA, SqB, SqC, Tri, Seg}

Boxes == {b \in Coord \X Coord \X Coord \X Coord : b[1] <= b[3] /\ b[2] <= b[4]}

EngineRegion(bbox, polygons) ==
    [id |-> 1, pid |-> 0, deep |-> 2, name |-> NameOf(1, 2),
     ext_path |-> FullPath(1, 2), center |-> None,
     bbox |-> bbox, polygons |-> polygons]

EngineRegions ==
    {EngineRegion(bbox, polygons) :
        bbox \in {None} \cup Boxes, polygons \in SeqsUpTo(RingPool, MaxRings)}

\* The arguments of the call are drawn here; the call applies the function.
InitEngine ==
    /\ source = <<>>
    /\ srcOpen = TRUE
    /\ regions = <<>>
    /\ provinces = <<>>
    /\ cities = <<>>
    /\ districts = <<>>
    /\ loaded = FALSE
    /\ hasQuery = FALSE
    /\ tracks = <<>>
    /\ NoThreads
    /\ op = "init"
    /\ arg \in {<<p[1], p[2], region>> : p \in Points, region \in EngineRegions}
    /\ ret = <<>>
    /\ outcome = "ok"
    /\ opens = 0

\* point_in_region(lon, lat, region)
PointInRegionCall ==
    /\ op = "init"
    /\ op' = "point_in_region"
    /\ ret' = point_in_region(arg[1], arg[2], arg[3])
    /\ outcome' = "ok"
    /\ opens' = 0
    /\ UNCHANGED <<source, srcOpen, storeVars, hasQuery, tracks, pc, pos,
                   arg>>

NextEngine == PointInRegionCall

SpecEngine == InitEngine /\ [][NextEngine]_vars

---------------------------------------------------------------------------
(* Properties of the resolver, checked under Spec *)

Contains(lon, lat, list) ==
    \E k \in 1..Len(list) : point_in_region(lon, lat, list[k])

LoadOps == {"load", "CoordinateQuery"}

\* C1: a city-level result (district absent, city present) is returned only
\* when no region of the district list contains the point, and a
\* province-only result only when no region of the district list and none
\* of the city list contains it.
C1_OrderingInvariant ==
    op = "query" =>
        /\ (ret.district = None /\ ret.city # None)
              => ~Contains(arg[1], arg[2], districts)
        /\ (ret.district = None /\ ret.city = None /\ ret.province # None)
              => /\ ~Contains(arg[1], arg[2], districts)
                 /\ ~Contains(arg[1], arg[2], cities)

\* A city-level result although a district's bounding box holds the point.
C1_Witness ==
    /\ op = "query"
    /\ ret.district = None
    /\ ret.city # None
    /\ \E k \in 1..Len(districts) :
          /\ districts[k].bbox # None
          /\ point_in_bbox(arg[1], arg[2], districts[k].bbox)

LevelList(deep) ==
    CASE deep = 0 -> provinces [] deep = 1 -> cities [] deep = 2 -> districts

\* A row the loader keeps: six fields or more and numeric id, pid and deep.
Accepted(row) == Len(row) >= 6 /\ row[1].ok /\ row[2].ok /\ row[3].ok

RowsAtLevel(rows, deep) ==
    SelectSeq(rows, LAMBDA row : Accepted(row) /\ row[3].v = deep)

InSourceOrder(list, deep) ==
    LET rows == RowsAtLevel(source, deep)
    IN  /\ Len(list) = Len(rows)
        /\ \A k \in 1..Len(list) :
              /\ list[k].id = rows[k][1].v
              /\ list[k].name = rows[k][4]
              /\ list[k].ext_path = rows[k][5]

\* C2: the region a query reports is, in the list of its level, the first
\* one that contains the point: none before it contains the point.  And
\* right after a load that read the source each level list holds the kept
\* records of its level in the order of the source.
C2_FirstMatch ==
    /\ (op = "query" /\ ret.region # None) =>
          LET r == ret.region[1]
              list == LevelList(r.deep)
          IN  \E k \in 1..Len(list) :
                 /\ list[k] = r
                 /\ point_in_region(arg[1], arg[2], list[k])
                 /\ \A m \in 1..(k - 1) :
                       ~point_in_region(arg[1], arg[2], list[m])
    /\ (op \in LoadOps /\ outcome = "ok" /\ opens = 1) =>
          \A deep \in 0..2 : InSourceOrder(LevelList(deep), deep)

\* Two regions of the matched level contain the point; the second differs.
C2_Witness ==
    /\ op = "query"
    /\ ret.region # None
    /\ LET list == LevelList(ret.region[1].deep)
       IN  /\ Len(list) >= 2
           /\ list[1] # list[2]
           /\ point_in_region(arg[1], arg[2], list[1])
           /\ point_in_region(arg[1], arg[2], list[2])

AllAbsent(r) ==
    r.province = None /\ r.city = None /\ r.district = None /\ r.full_path = None

\* C3: a query returns normally, and its result has province, city, district
\* and full_path all absent exactly when no region of the district, city or
\* province list contains the point.
C3_NotFound ==
    op = "query" =>
        /\ outcome = "ok"
        /\ AllAbsent(ret) <=>
              /\ ~Contains(arg[1], arg[2], districts)
              /\ ~Contains(arg[1], arg[2], cities)
              /\ ~Contains(arg[1], arg[2], provinces)

\* Nothing found although some region's bounding box holds the point.
C3_Witness ==
    /\ op = "query"
    /\ AllAbsent(ret)
    /\ \E k \in 1..Len(regions) :
          /\ regions[k].bbox # None
          /\ point_in_bbox(arg[1], arg[2], regions[k].bbox)

\* The whitespace tokens of a text, said without the scan of split: a token
\* starts at a non-blank character that follows a blank or nothing, and ends
\* before the next blank.
TokenStarts(s) ==
    {i \in 1..Len(s) : s[i] # " " /\ (i = 1 \/ s[i - 1] = " ")}

TokenEnd(s, i) ==
    CHOOSE j \in i..Len(s) :
        /\ \A m \in i..j : s[m] # " "
        /\ j = Len(s) \/ s[j + 1] = " "

NthStart(s, n) ==
    CHOOSE i \in TokenStarts(s) :
        Cardinality({j \in TokenStarts(s) : j <= i}) = n

OptToken(s, n) ==
    IF Cardinality(TokenStarts(s)) >= n
    THEN Some(SubSeq(s, NthStart(s, n), TokenEnd(s, NthStart(s, n))))
    ELSE None

\* C4: the fields of a result are fixed by the matched region's name and
\* ext_path alone.  District match: district = name, full_path = ext_path,
\* province = token 0 and city = token 1 of ext_path, each absent when the
\* token is.  City match: city = name, province = token 0, district absent.
\* Province match: province = name, city and district absent.
C4_DerivedFields ==
    (op = "query" /\ ret.region # None) =>
        LET r == ret.region[1]
        IN  /\ ret.full_path = Some(r.ext_path)
            /\ r.deep = 2 =>
                  /\ ret.district = Some(r.name)
                  /\ ret.province = OptToken(r.ext_path, 1)
                  /\ ret.city = OptToken(r.ext_path, 2)
            /\ r.deep = 1 =>
                  /\ ret.city = Some(r.name)
                  /\ ret.province = OptToken(r.ext_path, 1)
                  /\ ret.district = None
            /\ r.deep = 0 =>
                  /\ ret.province = Some(r.name)
                  /\ ret.city = None
                  /\ ret.district = None

\* A district whose ext_path has one token: province present, city absent.
C4_Witness ==
    /\ op = "query"
    /\ ret.district # None
    /\ ret.province # None
    /\ ret.city = None

\* C9: a load() on a loader whose _loaded flag is set changes neither the
\* dict of regions nor a level list nor the flag, opens nothing and returns
\* normally, whatever the source holds by then.
C9_LoadIdempotent ==
    [][(loaded /\ op' \in LoadOps) =>
          /\ UNCHANGED storeVars
          /\ outcome' = "ok"
          /\ opens' = 0]_vars

\* A second load() that did nothing although the source no longer holds what
\* the store was built from.
C9_Witness ==
    /\ op = "load"
    /\ loaded
    /\ opens = 0
    /\ regions # <<>>
    /\ Store # ReadRows(EmptyStore, source, 1)

\* C10: a load() on a loader not yet loaded calls open() once.  If open()
\* fails the call raises, the store is as empty as before and _loaded stays
\* unset; if a later call finds the source it reads it and sets the flag.
C10_SourceUnavailable ==
    [][(~loaded /\ op' \in LoadOps) =>
          /\ opens' = 1
          /\ ~srcOpen =>
                /\ outcome' = "error"
                /\ ~loaded'
                /\ Store' = EmptyStore
                /\ UNCHANGED <<regions, provinces, cities, districts>>
          /\ srcOpen =>
                /\ outcome' = "ok"
                /\ loaded'
                /\ Store' = ReadRows(EmptyStore, source, 1)]_vars

\* A load() that failed on a source holding records.
C10_Witness ==
    /\ op = "load"
    /\ outcome = "error"
    /\ ~loaded
    /\ ~srcOpen
    /\ source # <<>>

---------------------------------------------------------------------------
(* Properties of the containment engine, checked under SpecEngine *)

\* C5: point_in_region is false at a point that lies outside the region's
\* bounding box on some axis, whatever the rings are.
C5_OutsideBoxIsFalse ==
    (op = "point_in_region" /\ arg[3].bbox # None) =>
        LET lon == arg[1]
            lat == arg[2]
            b == arg[3].bbox
        IN  (lon < b[1] \/ lon > b[3] \/ lat < b[2] \/ lat > b[4])
                => ret = FALSE

\* A point outside the box that a ring of the region contains.
C5_Witness ==
    /\ op = "point_in_region"
    /\ arg[3].bbox # None
    /\ ~point_in_bbox(arg[1], arg[2], arg[3].bbox)
    /\ \E k \in 1..Len(arg[3].polygons) :
          point_in_polygon(arg[1], arg[2], arg[3].polygons[k])
    /\ ret = FALSE

\* C6: at a point inside the bounding box, edges included, point_in_region
\* is true exactly when point_in_polygon is true of some ring.
C6_UnionOverRings ==
    (op = "point_in_region" /\ arg[3].bbox # None) =>
        LET lon == arg[1]
            lat == arg[2]
            b == arg[3].bbox
        IN  (b[1] <= lon /\ lon <= b[3] /\ b[2] <= lat /\ lat <= b[4])
                => (ret <=> \E k \in 1..Len(arg[3].polygons) :
                              point_in_polygon(lon, lat, arg[3].polygons[k]))

\* A point on the edge of the box that only the second ring contains.
C6_Witness ==
    /\ op = "point_in_region"
    /\ arg[3].bbox # None
    /\ arg[1] = arg[3].bbox[3]
    /\ Len(arg[3].polygons) = 2
    /\ ~point_in_polygon(arg[1], arg[2], arg[3].polygons[1])
    /\ point_in_polygon(arg[1], arg[2], arg[3].polygons[2])
    /\ ret = TRUE

---------------------------------------------------------------------------
(* Spatial range engine: vehicle_tracker.py

   A longitude or latitude is an integer number of 1/UnitsPerDegree degree,
   a radius an integer number of metres, a distance an integer number of
   micrometres (the float of the code, cut after its sixth decimal) and
   distance_m, which the code rounds to two decimals, an integer number of
   centimetres.  tracks is in the order in which the record source yields
   its rows: PostgreSQL promises no order without ORDER BY, and every order
   of the rows is one of the tables of InitRange. *)

MaxTracks == 3      \* rows of table tracks
MaxLimit == 2       \* the limit argument is 0..MaxLimit

UnitsPerDegree == 10000
MetersPerDegree == 111000
CenterLng == 1164070
CenterLat == 399040
GridStep == 10

\* A centre next to the 180th meridian (179.9995 E), and the step that leads
\* from it to the place GridStep to its east, 179.9995 W.
EastLng == 1799995
WrapStep == GridStep - 360 * UnitsPerDegree

\* 1000 * math.cos(math.radians(lat)), cut to an integer, at the
\* latitudes of the centres.
CosMilliTable == (CenterLat :> 767)

CosMilli(lat) == CosMilliTable[lat]

\* _calculate_bbox: (min_lng, max_lng, min_lat, max_lat).  The deltas are cut
\* to whole units, which keeps exactly the grid coordinates c with
\* lng - lng_delta <= c <= lng + lng_delta of the code.
calculate_bbox(lng, lat, radius_m) ==
    LET lat_delta == (radius_m * UnitsPerDegree) \div MetersPerDegree
        lng_delta == (radius_m * UnitsPerDegree * 1000)
                        \div (MetersPerDegree * CosMilli(lat))
    IN  <<lng - lng_delta, lng + lng_delta, lat - lat_delta, lat + lat_delta>>

\* _haversine_distance(CenterLng, CenterLat, lng2, lat2) with EARTH_RADIUS =
\* 6371000, in micrometres: the values the code computes at the offsets
\* (lng2 - lng1, lat2 - CenterLat) of the grid.  The sine of half the
\* difference of the longitudes has the same square WrapStep and GridStep
\* apart.
HaversineTable ==
    (<<0, 0>> :> 0) @@ (<<0, GridStep>> :> 111194926)
    @@ (<<GridStep, 0>> :> 85299893) @@ (<<GridStep, GridStep>> :> 140143773)
    @@ (<<WrapStep, 0>> :> 85299893) @@ (<<WrapStep, GridStep>> :> 140143773)

haversine_distance(lng1, lat1, lng2, lat2) ==
    HaversineTable[<<lng2 - lng1, lat2 - lat1>>]

\* round(distance, 2), in centimetres.
Round2(distance) == (distance + 5000) \div 10000

\* The exact filter forgotten: every candidate of the rectangle is kept.
InCircleAlways(distance, radius_m) == TRUE

\* distance <= radius_m (line 321)
InCircle(distance, radius_m) == distance <= radius_m * 1000000

\* The WHERE clause of lines 286-305.  An argument the code tests with
\* "if x:" adds its condition only when it is truthy: None and the empty
\* string are not.
Matches(row, box, start_time, end_time, vehicle_id) ==
    /\ box[1] <= row.lng /\ row.lng <= box[2]
    /\ box[3] <= row.lat /\ row.lat <= box[4]
    /\ start_time # None => row.recorded_at >= start_time[1]
    /\ end_time # None => row.recorded_at <= end_time[1]
    /\ (vehicle_id # None /\ vehicle_id # Some("")) =>
          row.vehicle_id = vehicle_id[1]

\* LIMIT n: the first n rows.
Take(rows, n) == SubSeq(rows, 1, Min(n, Len(rows)))

\* The query with LIMIT limit.
CandidatesLimit(rows, a) ==
    LET box == calculate_bbox(a.lng, a.lat, a.radius_m)
    IN  Take(SelectSeq(rows, LAMBDA row :
                Matches(row, box, a.start_time, a.end_time, a.vehicle_id)),
             a.limit)

\* cur.fetchall() of the query of lines 286-309.
Candidates(rows, a) ==
    LET box == calculate_bbox(a.lng, a.lat, a.radius_m)
    IN  Take(SelectSeq(rows, LAMBDA row :
                Matches(row, box, a.start_time, a.end_time, a.vehicle_id)),
             a.limit * 2)

ResultRow(row, distance) ==
    [id |-> row.id, vehicle_id |-> row.vehicle_id, lng |-> row.lng,
     lat |-> row.lat, speed |-> row.speed, direction |-> row.direction,
     recorded_at |-> row.recorded_at, distance_m |-> Round2(distance)]

\* The loop of lines 315-334 without its break.
RECURSIVE FilterLoopNoBreak(_, _, _, _)
FilterLoopNoBreak(candidates, i, results, a) ==
    IF i > Len(candidates) THEN results
    ELSE LET row == candidates[i]
             distance == haversine_distance(a.lng, a.lat, row.lng, row.lat)
         IN  FilterLoopNoBreak(candidates, i + 1,
                 IF InCircle(distance, a.radius_m)
                 THEN Append(results, ResultRow(row, distance))
                 ELSE results, a)

\* The loop of lines 315-334 from candidate i on.
RECURSIVE FilterLoop(_, _, _, _)
FilterLoop(candidates, i, results, a) ==
    IF i > Len(candidates) THEN results
    ELSE LET row == candidates[i]
             distance == haversine_distance(a.lng, a.lat, row.lng, row.lat)
         IN  IF InCircle(distance, a.radius_m)
             THEN LET kept == Append(results, ResultRow(row, distance))
                  IN  IF Len(kept) >= a.limit THEN kept
                      ELSE FilterLoop(candidates, i + 1, kept, a)
             ELSE FilterLoop(candidates, i + 1, results, a)

\* list.sort(key = distance_m): stable, by insertion from the left.
InsertSorted(sorted, r) ==
    LET n == Cardinality({k \in 1..Len(sorted) :
                            sorted[k].distance_m <= r.distance_m})
    IN  SubSeq(sorted, 1, n) \o <<r>> \o SubSeq(sorted, n + 1, Len(sorted))

RECURSIVE SortFrom(_, _, _)
SortFrom(results, i, sorted) ==
    IF i > Len(results) THEN sorted
    ELSE SortFrom(results, i + 1, InsertSorted(sorted, results[i]))

SortByDistance(results) == SortFrom(results, 1, <<>>)

\* The rows in the circle sorted first and cut to the limit nearest after.
find_in_circle_nearest(rows, a) ==
    Take(SortByDistance(FilterLoopNoBreak(Candidates(rows, a), 1, <<>>, a)),
         a.limit)

find_in_circle(rows, a) ==
    SortByDistance(FilterLoop(Candidates(rows, a), 1, <<>>, a))

\* The count with "recorded_at > start_time" for the lower end of the time
\* window.
count_in_circle_strict(rows, a) ==
    LET box == calculate_bbox(a.lng, a.lat, a.radius_m)
    IN  Len(SelectSeq(rows, LAMBDA row :
            /\ Matches(row, box, a.start_time, a.end_time, None)
            /\ a.start_time # None => row.recorded_at > a.start_time[1]))

\* count_in_circle: SELECT COUNT(*) of the rows of the rectangle that pass
\* the time filters (lines 350-376); it has no vehicle filter and no limit.
count_in_circle(rows, a) ==
    LET box == calculate_bbox(a.lng, a.lat, a.radius_m)
    IN  Len(SelectSeq(rows, LAMBDA row :
            Matches(row, box, a.start_time, a.end_time, None)))

---------------------------------------------------------------------------
(* The range engine as a state machine: the table and the arguments of the
   call are drawn in InitRange, the call applies find_in_circle. *)

Radii == {0, 100, 120}

\* The places of the rows: the centre and its neighbours to the east (85 m),
\* to the north (111 m) and to the north-east (140 m).
TrackPlaces == {<<CenterLng + dx, CenterLat + dy>> :
                    dx \in {0, GridStep}, dy \in {0, GridStep}}

\* Vehicle A reports at time 1, vehicle B at time 2.
TrackOwners == {<<"A", 1>>, <<"B", 2>>}

\* A row of tracks as insert_tracks_batch stores it; id is the BIGSERIAL.
TrackRow(id, place, owner) ==
    [id |-> id, vehicle_id |-> owner[1], lng |-> place[1], lat |-> place[2],
     speed |-> None, direction |-> None, recorded_at |-> owner[2]]

TrackTables ==
    {[k \in 1..Len(t) |-> TrackRow(k, t[k][1], t[k][2])] :
        t \in SeqsUpTo(TrackPlaces \X TrackOwners, MaxTracks)}

RangeArgs ==
    [lng : {CenterLng}, lat : {CenterLat}, radius_m : Radii,
     start_time : {None, Some(2)}, end_time : {None, Some(1)},
     vehicle_id : {None, Some(""), Some("A")}, limit : 0..MaxLimit]

InitRange ==
    /\ source = <<>>
    /\ srcOpen = TRUE
    /\ regions = <<>>
    /\ provinces = <<>>
    /\ cities = <<>>
    /\ districts = <<>>
    /\ loaded = FALSE
    /\ hasQuery = FALSE
    /\ tracks \in TrackTables
    /\ NoThreads
    /\ op = "init"
    /\ arg \in RangeArgs
    /\ ret = <<>>
    /\ outcome = "ok"
    /\ opens = 0

\* tracker.find_in_circle(lng, lat, radius_m, start_time, end_time,
\*                        vehicle_id, limit)
FindInCircle ==
    /\ op = "init"
    /\ op' = "find_in_circle"
    /\ ret' = find_in_circle(tracks, arg)
    /\ outcome' = "ok"
    /\ opens' = 0
    /\ UNCHANGED <<source, srcOpen, storeVars, hasQuery, tracks, pc, pos,
                   arg>>

\* tracker.count_in_circle(lng, lat, radius_m, start_time, end_time)
CountInCircle ==
    /\ op = "init"
    /\ op' = "count_in_circle"
    /\ arg' = [lng |-> arg.lng, lat |-> arg.lat, radius_m |-> arg.radius_m,
               start_time |-> arg.start_time, end_time |-> arg.end_time]
    /\ ret' = count_in_circle(tracks, arg')
    /\ outcome' = "ok"
    /\ opens' = 0
    /\ UNCHANGED <<source, srcOpen, storeVars, hasQuery, tracks, pc, pos>>

NextRange == FindInCircle \/ CountInCircle

SpecRange == InitRange /\ [][NextRange]_vars

---------------------------------------------------------------------------
(* Properties of the range engine, checked under SpecRange *)

\* The rows of the table that lie in the circle of the call, by the
\* great-circle distance of the row itself.
Distance(a, row) == haversine_distance(a.lng, a.lat, row.lng, row.lat)

\* C7: every record find_in_circle returns is a row of the table whose
\* great-circle distance to the centre is at most the radius, and the
\* distance_m values of the returned list never decrease.
C7_WithinRadiusSorted ==
    op = "find_in_circle" =>
        /\ \A k \in 1..Len(ret) :
              /\ \E j \in 1..Len(tracks) : tracks[j].id = ret[k].id
              /\ Distance(arg, ret[k]) <= arg.radius_m * 1000000
        /\ \A k \in 1..(Len(ret) - 1) :
              ret[k].distance_m <= ret[k + 1].distance_m

\* The sort moved a later row to the front, and a row of the rectangle that
\* lies outside the circle was left out.
C7_Witness ==
    /\ op = "find_in_circle"
    /\ Len(ret) >= 2
    /\ ret[1].id > ret[2].id
    /\ ret[1].distance_m < ret[2].distance_m
    /\ \E j \in 1..Len(tracks) :
          /\ Matches(tracks[j], calculate_bbox(arg.lng, arg.lat, arg.radius_m),
                     arg.start_time, arg.end_time, arg.vehicle_id)
          /\ Distance(arg, tracks[j]) > arg.radius_m * 1000000

\* C8: find_in_circle returns at most limit records, limit = 0 included.
C8_AtMostLimit ==
    op = "find_in_circle" => Len(ret) <= arg.limit

\* The limit cut the result: more rows of the table pass every filter of
\* the call and lie in the circle than were returned.
C8_Witness ==
    /\ op = "find_in_circle"
    /\ arg.limit >= 1
    /\ Len(ret) = arg.limit
    /\ Cardinality({j \in 1..Len(tracks) :
          /\ Matches(tracks[j], calculate_bbox(arg.lng, arg.lat, arg.radius_m),
                     arg.start_time, arg.end_time, arg.vehicle_id)
          /\ Distance(arg, tracks[j]) <= arg.radius_m * 1000000}) > arg.limit

---------------------------------------------------------------------------
(* The loader on sources of short and malformed records.  Every record of
   the pool has a name of its own, by which the properties find it in the
   store. *)

BadRingText == <<<<Num(1), Num(1)>>, <<Num(3), BadNum>>, <<Num(3), Num(3)>>,
                 <<Num(1), Num(3)>>>>
LateBadRingText == <<<<Num(0), Num(0)>>, <<Num(3), Num(0)>>, <<Num(3), Num(3)>>,
                     <<BadNum, Num(3)>>>>

LoadRow(id, pid, deep, tag, center, polygon) ==
    <<id, pid, deep, <<"R", tag>>, <<"P", " ", "R", tag>>, center, polygon>>

WellFormedRow == LoadRow(Num(1), Num(0), Num(2), "a", <<Num(1), Num(1)>>,
                         <<Part(SqA)>>)
BadIdentRow == LoadRow(BadNum, Num(0), Num(2), "b", <<Num(1), Num(1)>>,
                       <<Part(SqA)>>)
BadParentRow == LoadRow(Num(3), BadNum, Num(1), "c", <<Num(1), Num(1)>>,
                        <<Part(SqA)>>)
BadLevelRow == LoadRow(Num(4), Num(0), BadNum, "d", <<Num(1), Num(1)>>,
                       <<Part(SqA)>>)
BadCenterRow == LoadRow(Num(5), Num(0), Num(2), "e", <<Num(1), BadNum>>,
                        <<Part(SqB)>>)
BadSecondRingRow == LoadRow(Num(6), Num(0), Num(1), "f", <<Num(1), Num(1)>>,
                            <<Part(SqA), <<BadRingText>>, Part(SqC)>>)
BadOnlyRingRow == LoadRow(Num(7), Num(0), Num(2), "g", <<Num(1), Num(1)>>,
                          <<<<LateBadRingText>>>>)
OneTokenCenterRow == LoadRow(Num(8), Num(0), Num(0), "h", <<Num(1)>>,
                             <<Part(Tri)>>)
SixFieldRow == SubSeq(LoadRow(Num(9), Num(0), Num(2), "i", <<>>, <<>>), 1, 6)
ShortRow == SubSeq(LoadRow(Num(10), Num(0), Num(2), "j", <<>>, <<>>), 1, 5)
ShorterRow == SubSeq(LoadRow(Num(11), Num(0), Num(2), "k", <<>>, <<>>), 1, 4)

LoadPool == {WellFormedRow, BadIdentRow, BadParentRow, BadLevelRow,
             BadCenterRow, BadSecondRingRow, BadOnlyRingRow,
             OneTokenCenterRow, SixFieldRow, ShortRow, ShorterRow}

InitLoad ==
    /\ source \in SeqsUpTo(LoadPool, MaxRows)
    /\ srcOpen = TRUE
    /\ regions = <<>>
    /\ provinces = <<>>
    /\ cities = <<>>
    /\ districts = <<>>
    /\ loaded = FALSE
    /\ hasQuery = FALSE
    /\ tracks = <<>>
    /\ NoThreads
    /\ op = "init"
    /\ arg = <<>>
    /\ ret = <<>>
    /\ outcome = "ok"
    /\ opens = 0

NextLoad == Load

SpecLoad == InitLoad /\ [][NextLoad]_vars

---------------------------------------------------------------------------
(* Properties of the loader, checked under SpecLoad *)

InIdIndex(row) == \E k \in 1..Len(regions) : regions[k].name = row[4]

InLevelList(row) ==
    \E deep \in 0..2 : \E k \in 1..Len(LevelList(deep)) :
        LevelList(deep)[k].name = row[4]

Absent(row) == ~InIdIndex(row) /\ ~InLevelList(row)

\* The regions the store holds for a record, in the index or in a list.
StoredFor(row) ==
    {regions[k] : k \in {j \in 1..Len(regions) : regions[j].name = row[4]}}
    \cup UNION {{LevelList(deep)[k] :
                    k \in {j \in 1..Len(LevelList(deep)) :
                              LevelList(deep)[j].name = row[4]}} :
                deep \in 0..2}

IdentFails(row) == ~row[1].ok \/ ~row[2].ok \/ ~row[3].ok

CenterFails(row) ==
    Len(row) >= 6 /\ \E k \in 1..Len(row[6]) : ~row[6][k].ok

\* The outer ring of a part holds a coordinate float() rejects.
PartFails(part) ==
    \E k \in 1..Len(part[1]) :
        /\ Len(part[1][k]) = 2
        /\ ~part[1][k][1].ok \/ ~part[1][k][2].ok

RingFails(row) ==
    Len(row) >= 7 /\ \E i \in 1..Len(row[7]) : PartFails(row[7][i])

NumericFailure(row) == IdentFails(row) \/ CenterFails(row) \/ RingFails(row)

\* The parts in front of the first one that fails.
PartsBeforeFailure(field) ==
    LET bad == {i \in 1..Len(field) : PartFails(field[i])}
    IN  IF bad = {} THEN field
        ELSE SubSeq(field, 1, (CHOOSE i \in bad : \A j \in bad : i <= j) - 1)

PointsOf(part) ==
    LET pairs == SelectSeq(part[1], LAMBDA xy : Len(xy) = 2)
    IN  [k \in 1..Len(pairs) |-> <<pairs[k][1].v, pairs[k][2].v>>]

\* The rings of three points or more of the parts, in their order.
RingsOf(parts) ==
    SelectSeq([i \in 1..Len(parts) |-> PointsOf(parts[i])],
              LAMBDA ring : Len(ring) >= 3)

C12_FieldCountRule ==
    loaded =>
        \A k \in 1..Len(source) :
            LET row == source[k]
            IN  /\ Len(row) < 5 => Absent(row)
                /\ (Len(row) >= 5 /\ ~NumericFailure(row)) => ~Absent(row)
                /\ (Len(row) = 5 /\ ~IdentFails(row)) =>
                      /\ InIdIndex(row)
                      /\ InLevelList(row)
                      /\ \A r \in StoredFor(row) :
                            r.center = None /\ r.bbox = None

---------------------------------------------------------------------------
(* count_in_circle against find_in_circle, checked under SpecRange *)

VehicleFilters == {None, Some(""), Some("A")}

\* The arguments of find_in_circle that share centre, radius and time
\* window with a call of count_in_circle.
WithOwnerAndLimit(a, vehicle_id, limit) ==
    [lng |-> a.lng, lat |-> a.lat, radius_m |-> a.radius_m,
     start_time |-> a.start_time, end_time |-> a.end_time,
     vehicle_id |-> vehicle_id, limit |-> limit]

\* C13: on the same table count_in_circle returns no less than the number
\* of records find_in_circle returns for the same centre, radius and time
\* window, whatever the vehicle filter and the limit; and every record
\* find_in_circle returns is a row of the rectangle that passes the time
\* filters.
C13_CountBoundsResults ==
    /\ op = "count_in_circle" =>
          \A v \in VehicleFilters : \A l \in 0..MaxLimit :
              ret >= Len(find_in_circle(tracks, WithOwnerAndLimit(arg, v, l)))
    /\ op = "find_in_circle" =>
          /\ Len(ret) <= count_in_circle(tracks, arg)
          /\ \A k \in 1..Len(ret) : \E j \in 1..Len(tracks) :
                /\ tracks[j].id = ret[k].id
                /\ Matches(tracks[j],
                           calculate_bbox(arg.lng, arg.lat, arg.radius_m),
                           arg.start_time, arg.end_time, None)

\* The count is larger than a result that is not empty and that no limit
\* cut: a row of the rectangle lies outside the circle.
C13_Witness ==
    /\ op = "count_in_circle"
    /\ arg.start_time # None
    /\ LET found == find_in_circle(tracks,
                                   WithOwnerAndLimit(arg, None, MaxLimit))
       IN  /\ Len(found) >= 1
           /\ Len(found) < MaxLimit
           /\ ret > Len(found)

---------------------------------------------------------------------------
(* The rectangle of _calculate_bbox against _haversine_distance: a centre,
   a radius and a coordinate are drawn, and the call computes the rectangle
   of the centre and the distance of the coordinate. *)

MaxRadius == 150    \* radii are 0..MaxRadius metres

MaxLng == 180 * UnitsPerDegree

BboxArgs ==
    {a \in [lng : {CenterLng, EastLng}, lat : {CenterLat},
            radius_m : 0..MaxRadius,
            lng2 : {c + dx : c \in {CenterLng, EastLng},
                             dx \in {0, GridStep, WrapStep}},
            lat2 : {CenterLat, CenterLat + GridStep}] :
        /\ a.lng2 - a.lng \in {0, GridStep, WrapStep}
        /\ -MaxLng <= a.lng2 /\ a.lng2 <= MaxLng}

InitBbox ==
    /\ source = <<>>
    /\ srcOpen = TRUE
    /\ regions = <<>>
    /\ provinces = <<>>
    /\ cities = <<>>
    /\ districts = <<>>
    /\ loaded = FALSE
    /\ hasQuery = FALSE
    /\ tracks = <<>>
    /\ NoThreads
    /\ op = "init"
    /\ arg \in BboxArgs
    /\ ret = <<>>
    /\ outcome = "ok"
    /\ opens = 0

\* _calculate_bbox(lng, lat, radius_m) and
\* _haversine_distance(lng, lat, lng2, lat2)
RectangleAndDistance ==
    /\ op = "init"
    /\ op' = "calculate_bbox"
    /\ ret' = [bbox |-> calculate_bbox(arg.lng, arg.lat, arg.radius_m),
               distance |-> haversine_distance(arg.lng, arg.lat,
                                               arg.lng2, arg.lat2)]
    /\ outcome' = "ok"
    /\ opens' = 0
    /\ UNCHANGED <<source, srcOpen, storeVars, hasQuery, tracks, pc, pos,
                   arg>>

NextBbox == RectangleAndDistance

SpecBbox == InitBbox /\ [][NextBbox]_vars

\* C14: the rectangle of a centre and a radius holds every coordinate whose
\* great-circle distance to the centre is at most the radius.
C14_RectangleHoldsCircle ==
    (op = "calculate_bbox" /\ ret.distance <= arg.radius_m * 1000000) =>
        /\ ret.bbox[1] <= arg.lng2 /\ arg.lng2 <= ret.bbox[2]
        /\ ret.bbox[3] <= arg.lat2 /\ arg.lat2 <= ret.bbox[4]

---------------------------------------------------------------------------
(* The readers of the store: CoordinateQuery.query, query_district and
   query_full, GeoDataLoader.get_children and get_region_by_name, next to
   load().  The source keeps the records it has; the file may go and come. *)

\* name in s: s holds name as a run of consecutive characters.
IsSubstring(name, s) ==
    \E i \in 0..(Len(s) - Len(name)) : SubSeq(s, i + 1, i + Len(name)) = name

\* The first region of regs, in the order of the dict, that the loop of
\* lines 173-175 returns; None when it runs to its end.
RECURSIVE FirstByName(_, _, _)
FirstByName(name, regs, k) ==
    IF k > Len(regs) THEN None
    ELSE IF IsSubstring(name, regs[k].name)
            \/ IsSubstring(name, regs[k].ext_path)
         THEN Some(regs[k])
    ELSE FirstByName(name, regs, k + 1)

get_region_by_name(name, st) == FirstByName(name, st.regions, 1)

get_children(parent_id, st) ==
    SelectSeq(st.regions, LAMBDA r : r.pid = parent_id)

\* query.query_district(lon, lat)
QueryDistrict(lon, lat) ==
    /\ hasQuery
    /\ op' = "query_district"
    /\ arg' = <<lon, lat>>
    /\ ret' = query(lon, lat, Store).district
    /\ outcome' = "ok"
    /\ opens' = 0
    /\ UNCHANGED <<source, srcOpen, storeVars, hasQuery, tracks, pc, pos>>

\* query.query_full(lon, lat)
QueryFull(lon, lat) ==
    /\ hasQuery
    /\ op' = "query_full"
    /\ arg' = <<lon, lat>>
    /\ ret' = query(lon, lat, Store).full_path
    /\ outcome' = "ok"
    /\ opens' = 0
    /\ UNCHANGED <<source, srcOpen, storeVars, hasQuery, tracks, pc, pos>>

\* get_children that keeps in the index only what it returns.
GetChildrenInPlace(parent_id) ==
    LET r == load(Store, loaded, source, srcOpen)
        children == get_children(parent_id, r.st)
    IN  /\ regions' = IF r.outcome = "ok" THEN children ELSE r.st.regions
        /\ provinces' = r.st.provinces
        /\ cities' = r.st.cities
        /\ districts' = r.st.districts
        /\ loaded' = r.loaded
        /\ outcome' = r.outcome
        /\ opens' = r.opens
        /\ op' = "get_children"
        /\ arg' = <<parent_id>>
        /\ ret' = IF r.outcome = "ok" THEN children ELSE <<>>
        /\ UNCHANGED <<source, srcOpen, hasQuery, tracks, pc, pos>>

\* loader.get_children(parent_id): line 180 loads first.
GetChildren(parent_id) ==
    /\ LoadEffect
    /\ op' = "get_children"
    /\ arg' = <<parent_id>>
    /\ ret' = IF outcome' = "ok"
              THEN get_children(parent_id,
                                [regions |-> regions', provinces |-> provinces',
                                 cities |-> cities', districts |-> districts'])
              ELSE <<>>
    /\ UNCHANGED <<source, srcOpen, hasQuery, tracks, pc, pos>>

\* loader.get_region_by_name(name): line 172 loads first.
GetRegionByName(name) ==
    /\ LoadEffect
    /\ op' = "get_region_by_name"
    /\ arg' = <<name>>
    /\ ret' = IF outcome' = "ok"
              THEN get_region_by_name(name,
                                [regions |-> regions', provinces |-> provinces',
                                 cities |-> cities', districts |-> districts'])
              ELSE <<>>
    /\ UNCHANGED <<source, srcOpen, hasQuery, tracks, pc, pos>>

ReaderPool == {BaseRow(1, 2), BaseRow(2, 2), BaseRow(3, 2), BaseRow(1, 1),
               BaseRow(2, 0), BadIdRow}

ParentIds == 0..2

NameArgs == {<<>>, <<"D">>, <<"C", "1">>, <<"1", " ", "C">>, <<"Z">>}

InitReaders ==
    /\ source \in SeqsUpTo(ReaderPool, MaxRows)
    /\ srcOpen \in BOOLEAN
    /\ regions = <<>>
    /\ provinces = <<>>
    /\ cities = <<>>
    /\ districts = <<>>
    /\ loaded = FALSE
    /\ hasQuery = FALSE
    /\ tracks = <<>>
    /\ NoThreads
    /\ op = "init"
    /\ arg = <<>>
    /\ ret = <<>>
    /\ outcome = "ok"
    /\ opens = 0

NextReaders ==
    \/ Load
    \/ NewQuery
    \/ \E p \in Points : Query(p[1], p[2])
    \/ \E p \in Points : QueryDistrict(p[1], p[2])
    \/ \E p \in Points : QueryFull(p[1], p[2])
    \/ \E parent_id \in ParentIds : GetChildren(parent_id)
    \/ \E name \in NameArgs : GetRegionByName(name)
    \/ SourceToggle

SpecReaders == InitReaders /\ [][NextReaders]_vars

---------------------------------------------------------------------------
(* Properties of the readers, checked under SpecReaders *)

\* The dataset: what load() builds from the records of the source.
Dataset == ReadRows(EmptyStore, source, 1)

\* C15: whatever calls of load, query, query_district, query_full,
\* get_children and get_region_by_name came before it, a query returns what
\* its point and the loaded dataset fix: two calls with the same point on
\* the same dataset return the same result.
C15_Deterministic ==
    op = "query" => ret = query(arg[1], arg[2], Dataset)

\* A query whose answer hangs on the order of the list: two districts hold
\* the point, the first was reported, and the file is gone since the load.
C15_Witness ==
    /\ op = "query"
    /\ ~srcOpen
    /\ Len(districts) = 2
    /\ districts[1] # districts[2]
    /\ point_in_region(arg[1], arg[2], districts[1])
    /\ point_in_region(arg[1], arg[2], districts[2])
    /\ ret.region = Some(districts[1])

\* C16: once load() has completed, no call of load, CoordinateQuery, query,
\* query_district, query_full, get_children or get_region_by_name changes
\* the dict of regions, a level list or the flag: nothing is added, removed,
\* moved or rewritten.
C16_ReadOnlyAfterLoad ==
    [][loaded => UNCHANGED storeVars]_vars

\* get_children returned regions of a loaded store that holds more than it
\* returned.
C16_Witness ==
    /\ op = "get_children"
    /\ loaded
    /\ opens = 0
    /\ ret # <<>>
    /\ Len(ret) < Len(regions)
    /\ Store = Dataset

---------------------------------------------------------------------------
(* load() called by several threads on one loader (the singleton of
   get_loader).  A thread switch can fall between any two lines of load();
   the steps below are the reads and writes of the shared fields: the test
   of _loaded (line 121), open() (line 126), the write of the dict (line
   155), the append to a level list (lines 157-162) and the write of
   _loaded (line 167).  Parsing a row touches nothing shared.  pc is
   "idle" before the call, "open", "row", "append" inside it, "returned"
   after the return of line 122, "raised" after open() failed and "read"
   after line 167; pos is the row the thread's reader stands at. *)

RacePool == {BaseRow(1, 2), BaseRow(2, 2), BaseRow(1, 1), BadIdRow}

InitRace ==
    /\ source \in SeqsUpTo(RacePool, MaxRows)
    /\ srcOpen \in BOOLEAN
    /\ regions = <<>>
    /\ provinces = <<>>
    /\ cities = <<>>
    /\ districts = <<>>
    /\ loaded = FALSE
    /\ hasQuery = FALSE
    /\ tracks = <<>>
    /\ NoThreads
    /\ op = "init"
    /\ arg = <<>>
    /\ ret = <<>>
    /\ outcome = "ok"
    /\ opens = 0

\* What a step of a thread inside load() leaves of the last call.
ThreadStep(t, result, opened) ==
    /\ op' = "load"
    /\ arg' = <<t>>
    /\ ret' = <<>>
    /\ outcome' = result
    /\ opens' = opened
    /\ UNCHANGED <<source, srcOpen, hasQuery, tracks>>

\* The region lines 133-153 build from a row that they accept.
RegionOf(row) ==
    LET parsed == parse_polygon(IF Len(row) > 6 THEN row[7] ELSE <<>>)
    IN  [id |-> row[1].v, pid |-> row[2].v, deep |-> row[3].v,
         name |-> row[4], ext_path |-> row[5],
         center |-> parse_center(row[6]),
         bbox |-> parsed.bbox, polygons |-> parsed.polygons]

\* Lines 121-122: if self._loaded: return
TestLoaded(t) ==
    /\ pc[t] = "idle"
    /\ pc' = [pc EXCEPT ![t] = IF loaded THEN "returned" ELSE "open"]
    /\ ThreadStep(t, "ok", 0)
    /\ UNCHANGED <<storeVars, pos>>

\* Line 126: open(self.csv_path)
OpenSource(t) ==
    /\ pc[t] = "open"
    /\ pc' = [pc EXCEPT ![t] = IF srcOpen THEN "row" ELSE "raised"]
    /\ pos' = [pos EXCEPT ![t] = IF srcOpen THEN 1 ELSE 0]
    /\ ThreadStep(t, IF srcOpen THEN "ok" ELSE "error", 1)
    /\ UNCHANGED storeVars

\* Lines 128-155: the next row; a row that is kept is written to the dict.
NextRow(t) ==
    /\ pc[t] = "row"
    /\ pos[t] <= Len(source)
    /\ LET row == source[pos[t]]
       IN  IF Len(row) < 6 \/ ~row[1].ok \/ ~row[2].ok \/ ~row[3].ok
           THEN /\ pos' = [pos EXCEPT ![t] = pos[t] + 1]
                /\ UNCHANGED <<storeVars, pc>>
           ELSE /\ regions' = DictPut(regions, RegionOf(row))
                /\ pc' = [pc EXCEPT ![t] = "append"]
                /\ UNCHANGED <<provinces, cities, districts, loaded, pos>>
    /\ ThreadStep(t, "ok", 0)

\* The append that skips a region whose id its list already holds.
AppendRegionOnce(t) ==
    /\ pc[t] = "append"
    /\ LET region == RegionOf(source[pos[t]])
           deep == region.deep
           Add(list) == IF \E k \in 1..Len(list) : list[k].id = region.id
                        THEN list ELSE Append(list, region)
       IN  /\ provinces' = IF deep = 0 THEN Add(provinces) ELSE provinces
           /\ cities' = IF deep = 1 THEN Add(cities) ELSE cities
           /\ districts' = IF deep = 2 THEN Add(districts) ELSE districts
    /\ pc' = [pc EXCEPT ![t] = "row"]
    /\ pos' = [pos EXCEPT ![t] = pos[t] + 1]
    /\ ThreadStep(t, "ok", 0)
    /\ UNCHANGED <<regions, loaded>>

\* Lines 157-162: the append to the list of the region's level.
AppendRegion(t) ==
    /\ pc[t] = "append"
    /\ LET region == RegionOf(source[pos[t]])
           deep == region.deep
       IN  /\ provinces' = IF deep = 0 THEN Append(provinces, region)
                           ELSE provinces
           /\ cities' = IF deep = 1 THEN Append(cities, region) ELSE cities
           /\ districts' = IF deep = 2 THEN Append(districts, region)
                           ELSE districts
    /\ pc' = [pc EXCEPT ![t] = "row"]
    /\ pos' = [pos EXCEPT ![t] = pos[t] + 1]
    /\ ThreadStep(t, "ok", 0)
    /\ UNCHANGED <<regions, loaded>>

\* Line 167, after the last row: self._loaded = True
SetLoaded(t) ==
    /\ pc[t] = "row"
    /\ pos[t] > Len(source)
    /\ loaded' = TRUE
    /\ pc' = [pc EXCEPT ![t] = "read"]
    /\ ThreadStep(t, "ok", 0)
    /\ UNCHANGED <<regions, provinces, cities, districts, pos>>

NextRace ==
    \E t \in Threads :
        \/ TestLoaded(t)
        \/ OpenSource(t)
        \/ NextRow(t)
        \/ AppendRegion(t)
        \/ SetLoaded(t)

SpecRace == InitRace /\ [][NextRace]_vars

\* Every thread has left load().
AllLeft == \A t \in Threads : pc[t] \in {"returned", "raised", "read"}

\* The threads that read the source to its end.
Readers == {t \in Threads : pc[t] = "read"}

Count(v, list) == Cardinality({k \in 1..Len(list) : list[k] = v})

\* C17: the test of _loaded and its write are not one step, so every thread
\* that passes the test before a write reads the whole source: when all
\* threads have left load(), each level list holds every region of its
\* level once for every thread that read the source, twice and more when
\* two threads and more did.
C17_ListsHoldACopyPerReader ==
    AllLeft =>
        \A deep \in 0..2 :
            LET list == LevelList(deep)
                once == CASE deep = 0 -> Dataset.provinces
                          [] deep = 1 -> Dataset.cities
                          [] deep = 2 -> Dataset.districts
            IN  /\ Len(list) = Cardinality(Readers) * Len(once)
                /\ \A k \in 1..Len(once) :
                      Count(once[k], list)
                          = Cardinality(Readers) * Count(once[k], once)

\* Two threads called load() on the loader, both read the source, and the
\* district list holds every district twice.
C17_Witness ==
    /\ AllLeft
    /\ loaded
    /\ Cardinality(Readers) >= 2
    /\ Dataset.districts # <<>>
    /\ Len(districts) = 2 * Len(Dataset.districts)
    /\ \A k \in 1..Len(districts) : Count(districts[k], districts) >= 2

---------------------------------------------------------------------------
(* dms_to_decimal (coordinate_query.py).  Degrees, minutes and seconds are
   integers and the result is a number of seconds of arc, 1/3600 degree: the
   real number the expression of line 215 stands for, without the rounding
   of its float. *)

SecondsPerDegree == 3600
SecondsPerMinute == 60

\* Minutes taken for hundredths of a degree.
dms_to_decimal_centesimal(degrees, minutes, seconds) ==
    degrees * SecondsPerDegree + minutes * (SecondsPerDegree \div 100) + seconds

\* degrees + minutes / 60 + seconds / 3600
dms_to_decimal(degrees, minutes, seconds) ==
    degrees * SecondsPerDegree + minutes * SecondsPerMinute + seconds

DmsDegrees == {-23, 0, 22, 23, 110, 111}
DmsMinutes == {0, 3, 13, 22, 37, 59}
DmsSeconds == {0, 30, 59}

\* The calls with and without the third argument.
DmsArgs ==
    (DmsDegrees \X DmsMinutes) \cup (DmsDegrees \X DmsMinutes \X DmsSeconds)

InitDms ==
    /\ source = <<>>
    /\ srcOpen = TRUE
    /\ regions = <<>>
    /\ provinces = <<>>
    /\ cities = <<>>
    /\ districts = <<>>
    /\ loaded = FALSE
    /\ hasQuery = FALSE
    /\ tracks = <<>>
    /\ NoThreads
    /\ op = "init"
    /\ arg \in DmsArgs
    /\ ret = <<>>
    /\ outcome = "ok"
    /\ opens = 0

\* dms_to_decimal(degrees, minutes) and dms_to_decimal(degrees, minutes,
\* seconds): seconds = 0 is the default of line 199.
DmsToDecimal ==
    /\ op = "init"
    /\ op' = "dms_to_decimal"
    /\ ret' = dms_to_decimal(arg[1], arg[2],
                             IF Len(arg) = 3 THEN arg[3] ELSE 0)
    /\ outcome' = "ok"
    /\ opens' = 0
    /\ UNCHANGED <<source, srcOpen, storeVars, hasQuery, tracks, pc, pos,
                   arg>>

NextDms == DmsToDecimal

SpecDms == InitDms /\ [][NextDms]_vars

\* C18: the result of dms_to_decimal, in degrees, is degrees + minutes/60 +
\* seconds/3600, with seconds 0 when the call leaves it out: 3600 times the
\* result is 3600 * degrees + 60 * minutes + seconds.  The result of
\* (110, 3, 0) is 110.05 and that of (23, 13, 0) is within 1e-4 of 23.2167.
C18_DegreesFromDMS ==
    op = "dms_to_decimal" =>
        LET seconds == IF Len(arg) = 3 THEN arg[3] ELSE 0
        IN  /\ ret - seconds = 60 * (60 * arg[1] + arg[2])
            /\ (arg[1] = 110 /\ arg[2] = 3 /\ seconds = 0)
                  => 100 * ret = 11005 * 3600
            /\ (arg[1] = 23 /\ arg[2] = 13 /\ seconds = 0)
                  => /\ 10000 * ret - 232167 * 3600 <= 3600
                     /\ 232167 * 3600 - 10000 * ret <= 3600

\* The call dms_to_decimal(23, 13) of test_pudong.py, the seconds left out:
\* a result that is not 23.2167 itself.
C18_Witness ==
    /\ op = "dms_to_decimal"
    /\ arg = <<23, 13>>
    /\ 10000 * ret # 232167 * 3600

---------------------------------------------------------------------------
(* point_in_polygon and point_in_bbox called on their own: a point and a
   ring, or a point and a box, are drawn, and the call applies the
   function. *)

MaxRingLen == 4     \* vertices of a ring

\* The corners of SqA, a vertex to the east of it and one inside it.
RingVertices == {<<0, 0>>, <<2, 0>>, <<2, 2>>, <<0, 2>>, <<3, 1>>, <<1, 1>>}

Rings == SeqsUpTo(RingVertices, MaxRingLen)

\* Every 4-tuple is a box for point_in_bbox, also one with min above max.
AnyBoxes == Coord \X Coord \X Coord \X Coord

GeometryArgs ==
    [lon : Coord, lat : Coord, polygon : Rings]
    \cup [lon : Coord, lat : Coord, bbox : AnyBoxes]

InitGeometry ==
    /\ source = <<>>
    /\ srcOpen = TRUE
    /\ regions = <<>>
    /\ provinces = <<>>
    /\ cities = <<>>
    /\ districts = <<>>
    /\ loaded = FALSE
    /\ hasQuery = FALSE
    /\ tracks = <<>>
    /\ NoThreads
    /\ op = "init"
    /\ arg \in GeometryArgs
    /\ ret = <<>>
    /\ outcome = "ok"
    /\ opens = 0

\* point_in_polygon(lon, lat, polygon)
PointInPolygonCall ==
    /\ op = "init"
    /\ "polygon" \in DOMAIN arg
    /\ op' = "point_in_polygon"
    /\ IF point_in_polygon_raises(arg.lon, arg.lat, arg.polygon)
       THEN ret' = <<>> /\ outcome' = "error"
       ELSE /\ ret' = point_in_polygon(arg.lon, arg.lat, arg.polygon)
            /\ outcome' = "ok"
    /\ opens' = 0
    /\ UNCHANGED <<source, srcOpen, storeVars, hasQuery, tracks, pc, pos,
                   arg>>

\* point_in_polygon(lng, lat, polygon) of pg_simple_query.py
PgPointInPolygonCall ==
    /\ op = "init"
    /\ "polygon" \in DOMAIN arg
    /\ op' = "pg_point_in_polygon"
    /\ IF pg_point_in_polygon_raises(arg.lon, arg.lat, arg.polygon)
       THEN ret' = <<>> /\ outcome' = "error"
       ELSE /\ ret' = pg_point_in_polygon(arg.lon, arg.lat, arg.polygon)
            /\ outcome' = "ok"
    /\ opens' = 0
    /\ UNCHANGED <<source, srcOpen, storeVars, hasQuery, tracks, pc, pos,
                   arg>>

\* point_in_bbox(lon, lat, bbox)
PointInBboxCall ==
    /\ op = "init"
    /\ "bbox" \in DOMAIN arg
    /\ op' = "point_in_bbox"
    /\ ret' = point_in_bbox(arg.lon, arg.lat, arg.bbox)
    /\ outcome' = "ok"
    /\ opens' = 0
    /\ UNCHANGED <<source, srcOpen, storeVars, hasQuery, tracks, pc, pos,
                   arg>>

NextGeometry == PointInPolygonCall \/ PgPointInPolygonCall \/ PointInBboxCall

SpecGeometry == InitGeometry /\ [][NextGeometry]_vars

\* The vertex in front of vertex i, the last one in front of the first.
Before(ring, i) == IF i = 1 THEN Len(ring) ELSE i - 1

\* The edge between vertex i and the vertex in front of it has exactly one
\* end with a latitude above lat, and lon lies to the west of the point at
\* which the edge is at latitude lat,
\*     xi + (xj - xi) * (lat - yi) / (yj - yi);
\* the comparison is multiplied by the square of yj - yi, which is not 0.
CrossedEdge(lon, lat, ring, i) ==
    LET xi == ring[i][1]
        yi == ring[i][2]
        xj == ring[Before(ring, i)][1]
        yj == ring[Before(ring, i)][2]
        dy == yj - yi
    IN  /\ (yi > lat /\ yj <= lat) \/ (yi <= lat /\ yj > lat)
        /\ (lon - xi) * dy * dy < (xj - xi) * (lat - yi) * dy

CrossedEdges(lon, lat, ring) ==
    {i \in 1..Len(ring) : CrossedEdge(lon, lat, ring, i)}

\* C19: point_in_polygon is true exactly when the ring has three points or
\* more and the number of its edges, the edge from the last vertex to the
\* first included, that have one end strictly above the latitude of the
\* point and reach that latitude strictly to the east of the point is odd.
C19_ParityOfCrossedEdges ==
    op = "point_in_polygon" =>
        /\ Len(arg.polygon) < 3 => ret = FALSE
        /\ Len(arg.polygon) >= 3 =>
              (ret <=> Cardinality(CrossedEdges(arg.lon, arg.lat,
                                                arg.polygon)) % 2 = 1)

\* A ring of which the ray crosses three edges, the closing edge among
\* them.
C19_Witness ==
    /\ op = "point_in_polygon"
    /\ ret = TRUE
    /\ 1 \in CrossedEdges(arg.lon, arg.lat, arg.polygon)
    /\ Cardinality(CrossedEdges(arg.lon, arg.lat, arg.polygon)) = 3

\* C20: point_in_bbox is true exactly when the point lies outside the box
\* on no axis: not west of min_lon, not east of max_lon, not south of
\* min_lat, not north of max_lat.  A point on an edge or on a corner of a
\* box whose min is not above its max is inside it.
C20_InclusiveBox ==
    op = "point_in_bbox" =>
        LET lon == arg.lon
            lat == arg.lat
            b == arg.bbox
        IN  /\ ret <=> ~(lon < b[1] \/ lon > b[3] \/ lat < b[2] \/ lat > b[4])
            /\ (b[1] <= b[3] /\ b[2] <= b[4]) =>
                  /\ (lon \in {b[1], b[3]} /\ lat \in b[2]..b[4]) => ret
                  /\ (lat \in {b[2], b[4]} /\ lon \in b[1]..b[3]) => ret

\* The point is the upper right corner of a box that is more than a point.
C20_Witness ==
    /\ op = "point_in_bbox"
    /\ arg.bbox[1] < arg.bbox[3]
    /\ arg.bbox[2] < arg.bbox[4]
    /\ arg.lon = arg.bbox[3]
    /\ arg.lat = arg.bbox[4]
    /\ ret = TRUE

---------------------------------------------------------------------------
(* The loader on ring texts of every kind, with the containment engine and
   the resolver on the regions it builds. *)

ShortThenRingRow == LoadRow(Num(12), Num(0), Num(2), "l", <<Num(1), Num(1)>>,
                            <<Part(Seg), Part(SqA)>>)
OnlyShortRingRow == LoadRow(Num(13), Num(0), Num(2), "m", <<Num(1), Num(1)>>,
                            <<Part(Seg)>>)
TwoRingRow == LoadRow(Num(14), Num(0), Num(1), "n", <<Num(1), Num(1)>>,
                      <<Part(SqA), Part(SqB)>>)
RingThenLateBadRow == LoadRow(Num(15), Num(0), Num(0), "o",
                              <<Num(1), Num(1)>>,
                              <<Part(SqA), <<LateBadRingText>>>>)

ShapePool == {WellFormedRow, TwoRingRow, ShortThenRingRow, OnlyShortRingRow,
              BadSecondRingRow, BadOnlyRingRow, RingThenLateBadRow,
              SixFieldRow}

InitShapes ==
    /\ source \in SeqsUpTo(ShapePool, MaxRows)
    /\ srcOpen = TRUE
    /\ regions = <<>>
    /\ provinces = <<>>
    /\ cities = <<>>
    /\ districts = <<>>
    /\ loaded = FALSE
    /\ hasQuery = FALSE
    /\ tracks = <<>>
    /\ NoThreads
    /\ op = "init"
    /\ arg = <<>>
    /\ ret = <<>>
    /\ outcome = "ok"
    /\ opens = 0

\* point_in_region(lon, lat, region) on the k-th region of the loader's dict
PointInStoredRegion(lon, lat, k) ==
    /\ loaded
    /\ k \in 1..Len(regions)
    /\ op' = "point_in_region"
    /\ arg' = <<lon, lat, regions[k]>>
    /\ ret' = point_in_region(lon, lat, regions[k])
    /\ outcome' = "ok"
    /\ opens' = 0
    /\ UNCHANGED <<source, srcOpen, storeVars, hasQuery, tracks, pc, pos>>

NextShapes ==
    \/ Load
    \/ NewQuery
    \/ \E p \in Points : Query(p[1], p[2])
    \/ \E p \in Points : \E k \in 1..MaxRows :
          PointInStoredRegion(p[1], p[2], k)

SpecShapes == InitShapes /\ [][NextShapes]_vars

---------------------------------------------------------------------------
(* Properties of the regions the loader builds, checked under SpecShapes *)

\* Every region the store holds, in the id index or in a level list.
AllStored ==
    {regions[k] : k \in 1..Len(regions)}
    \cup UNION {{LevelList(deep)[k] : k \in 1..Len(LevelList(deep))} :
                deep \in 0..2}

RingPoints(region) ==
    UNION {{region.polygons[k][i] : i \in 1..Len(region.polygons[k])} :
           k \in 1..Len(region.polygons)}

\* (min lon, min lat, max lon, max lat) over a non-empty set of points.
BoxOf(S) ==
    <<CHOOSE x \in {p[1] : p \in S} : \A p \in S : x <= p[1],
      CHOOSE y \in {p[2] : p \in S} : \A p \in S : y <= p[2],
      CHOOSE x \in {p[1] : p \in S} : \A p \in S : x >= p[1],
      CHOOSE y \in {p[2] : p \in S} : \A p \in S : y >= p[2]>>

\* C21: for every region stored by load that has at least one ring, the
\* bounding box is exactly (min lon, min lat, max lon, max lat) over the
\* points of the region's stored rings and nothing else, whatever the ring
\* string (one with a ring of fewer than 3 points or with a coordinate that
\* fails to parse included).
C21_BoxIsEnvelopeOfStoredRings ==
    \A r \in AllStored :
        r.polygons # <<>> => r.bbox = BoxOf(RingPoints(r))

\* C22: for every region stored by load the bounding box is present iff the
\* region has at least one ring, every stored ring has at least 3 points,
\* and a region without a ring is never matched: point_in_region is false
\* for it at every point and query never reports it.
C22_BoxIffRing ==
    /\ \A r \in AllStored :
          /\ r.bbox # None <=> r.polygons # <<>>
          /\ \A k \in 1..Len(r.polygons) : Len(r.polygons[k]) >= 3
    /\ (op = "point_in_region" /\ arg[3].polygons = <<>>) => ret = FALSE
    /\ (op = "query" /\ ret.region # None) => ret.region[1].polygons # <<>>

\* point_in_region was asked about a stored region without a ring, whose
\* source record held a ring of two points, while the store also holds a
\* region with a ring.
C22_Witness ==
    /\ op = "point_in_region"
    /\ arg[3].polygons = <<>>
    /\ arg[3].bbox = None
    /\ arg[3].name = OnlyShortRingRow[4]
    /\ ret = FALSE
    /\ \E r \in AllStored : r.polygons # <<>>

\* The polygon field of the record holds rings, none of them fails to parse
\* and each has fewer than 3 points.
OnlyShortRings(row) ==
    /\ Len(row) >= 7
    /\ row[7] # <<>>
    /\ ~RingFails(row)
    /\ \A i \in 1..Len(row[7]) : Len(PointsOf(row[7][i])) < 3

\* C23 as stated: a record whose rings all have fewer than 3 points is
\* skipped: after load it is in neither the id index nor a level list, load
\* completes without error, and every other record is loaded.
C23_ShortRingsRejected ==
    op = "load" =>
        /\ outcome = "ok"
        /\ loaded
        /\ \A k \in 1..Len(source) :
              LET row == source[k]
              IN  IF OnlyShortRings(row) THEN Absent(row)
                  ELSE InIdIndex(row) /\ InLevelList(row)

\* C23 as amended: of a record whose rings all have fewer than 3 points the
\* rings are skipped, not the record: after load the record is in the id
\* index and in its level list, with no ring and no bounding box; load
\* completes without error, and every other record is loaded.
C23_ShortRingsDropped ==
    op = "load" =>
        /\ outcome = "ok"
        /\ loaded
        /\ \A k \in 1..Len(source) :
              LET row == source[k]
              IN  /\ Accepted(row) => InIdIndex(row) /\ InLevelList(row)
                  /\ OnlyShortRings(row) =>
                        \A r \in StoredFor(row) :
                            /\ r.id = row[1].v
                            /\ r.deep = row[3].v
                            /\ r.polygons = <<>>
                            /\ r.bbox = None

\* load has read a record whose only ring has two points, next to a record
\* with a ring.
C23_Witness ==
    /\ op = "load"
    /\ loaded
    /\ \E k \in 1..Len(source) :
          /\ OnlyShortRings(source[k])
          /\ StoredFor(source[k]) # {}
    /\ \E k \in 1..Len(source) :
          /\ ~OnlyShortRings(source[k])
          /\ \E r \in StoredFor(source[k]) : r.polygons # <<>>

\* C27: the bounding-box test of point_in_region is a pure optimisation: for
\* every region built by the loader and every point, point_in_region equals
\* "point_in_polygon is true for some stored ring".
C27_BoxNeverRejects ==
    op = "point_in_region" =>
        (ret <=> \E k \in 1..Len(arg[3].polygons) :
                    point_in_polygon(arg[1], arg[2], arg[3].polygons[k]))

\* A point on the edge of the box of a stored region was found inside it.
C27_Witness ==
    /\ op = "point_in_region"
    /\ arg[3].bbox # None
    /\ arg[1] = arg[3].bbox[1] \/ arg[2] = arg[3].bbox[2]
    /\ ret = TRUE

---------------------------------------------------------------------------
(* The shape of a find_in_circle result, checked under SpecRange *)

\* The indices of the rows of the table that pass the WHERE clause of the
\* call held in arg.
MatchingRows ==
    {j \in 1..Len(tracks) :
        Matches(tracks[j], calculate_bbox(arg.lng, arg.lat, arg.radius_m),
                arg.start_time, arg.end_time, arg.vehicle_id)}

\* Those of them that lie in the circle.
InCircleRows ==
    {j \in MatchingRows : Distance(arg, tracks[j]) <= arg.radius_m * 1000000}

\* The first n members of a set of indices.
FirstOf(S, n) == {j \in S : Cardinality({i \in S : i < j}) < n}

Returned == {ret[k].id : k \in 1..Len(ret)}

\* C24: the cap of 2 x limit candidate rows can miss a record: a row in the
\* circle that passes every filter is left out of a result of fewer than
\* limit records only if 2 x limit rows of the rectangle that pass the
\* filters stand in front of it (C24_Witness: and there are tables in which
\* that happens).
C24_MissedOnlyBeyondCap ==
    op = "find_in_circle" =>
        \A j \in InCircleRows :
            (Len(ret) < arg.limit /\ tracks[j].id \notin Returned) =>
                Cardinality({i \in MatchingRows : i < j}) >= 2 * arg.limit

\* A row in the circle that passes every filter is not returned although
\* the call returns fewer than limit records.
C24_Witness ==
    /\ op = "find_in_circle"
    /\ arg.limit >= 1
    /\ Len(ret) < arg.limit
    /\ \E j \in InCircleRows : tracks[j].id \notin Returned

\* C25: every record find_in_circle returns satisfies every filter the
\* caller supplied: recorded_at >= start_time, recorded_at <= end_time and
\* vehicle_id equal to the supplied vehicle_id, for every supplied value
\* (the empty string included); an omitted filter imposes no restriction.
C25_EverySuppliedFilter ==
    op = "find_in_circle" =>
        \A k \in 1..Len(ret) :
            /\ arg.start_time # None => ret[k].recorded_at >= arg.start_time[1]
            /\ arg.end_time # None => ret[k].recorded_at <= arg.end_time[1]
            /\ arg.vehicle_id # None => ret[k].vehicle_id = arg.vehicle_id[1]

\* C26: the result of find_in_circle is precisely the first min(limit, k)
\* rows in the circle, in row order, among the at most 2 x limit rows
\* fetched (k the number of rows in the circle among them), ordered by
\* distance.  Hence when at most 2 x limit rows pass the WHERE clause and at
\* most limit of them lie in the circle, every one of these is returned.
C26_ExactShape ==
    op = "find_in_circle" =>
        LET fetched == FirstOf(MatchingRows, 2 * arg.limit)
            kept == FirstOf(fetched \cap InCircleRows, arg.limit)
        IN  /\ Len(ret) = Cardinality(kept)
            /\ Returned = {tracks[j].id : j \in kept}
            /\ \A k \in 1..Len(ret) : \E j \in kept :
                  ret[k] = ResultRow(tracks[j], Distance(arg, tracks[j]))
            /\ \A k \in 1..(Len(ret) - 1) :
                  ret[k].distance_m <= ret[k + 1].distance_m
            /\ (Cardinality(MatchingRows) <= 2 * arg.limit
                /\ Cardinality(InCircleRows) <= arg.limit) =>
                  Returned = {tracks[j].id : j \in InCircleRows}

\* The returned records are not the limit nearest ones: a row that passes
\* every filter lies nearer to the centre than a returned record and is not
\* returned.
C26_Witness ==
    /\ op = "find_in_circle"
    /\ Len(ret) = arg.limit
    /\ \E j \in InCircleRows : \E k \in 1..Len(ret) :
          /\ tracks[j].id \notin Returned
          /\ Distance(arg, tracks[j]) < Distance(arg, ret[k])

---------------------------------------------------------------------------
(* The division of the ray cast, checked under SpecGeometry *)

\* C30: point_in_polygon never divides by zero: the interpolation, which
\* divides by (yj - yi), is evaluated only for edges whose end latitudes
\* differ, for every ring (horizontal edges, repeated consecutive vertices
\* and an explicitly closed ring included) and every point, in
\* coordinate_query.py and in the copy of pg_simple_query.py.
C30_NoDivisionByZero ==
    op \in {"point_in_polygon", "pg_point_in_polygon"} =>
        /\ outcome = "ok"
        /\ ret \in BOOLEAN
        /\ \A i \in 1..Len(arg.polygon) :
              Interpolated(arg.lat, arg.polygon[i],
                           arg.polygon[Before(arg.polygon, i)]) =>
                  arg.polygon[i][2] # arg.polygon[Before(arg.polygon, i)][2]

\* The call returned for an explicitly closed ring, whose closing edge runs
\* from a vertex to itself, with a horizontal edge at the latitude of the
\* point.
C30_Witness ==
    /\ op = "point_in_polygon"
    /\ outcome = "ok"
    /\ Len(arg.polygon) >= 4
    /\ arg.polygon[1] = arg.polygon[Len(arg.polygon)]
    /\ \E i \in 2..Len(arg.polygon) :
          /\ arg.polygon[i][2] = arg.lat
          /\ arg.polygon[i - 1][2] = arg.lat
          /\ arg.polygon[i][1] # arg.polygon[i - 1][1]

---------------------------------------------------------------------------
(* The id index against the level lists, checked under Spec *)

\* C28: after load every region in the province, city and district lists is
\* the very region the id index holds for its id, its level is the level of
\* the list, and no id occurs more than once across the level lists, for
\* every source, one in which two records share an id included.
C28_IndexConsistent ==
    loaded =>
        /\ \A deep \in 0..2 : \A k \in 1..Len(LevelList(deep)) :
              LET r == LevelList(deep)[k]
              IN  /\ r.deep = deep
                  /\ \E i \in 1..Len(regions) : regions[i] = r
        /\ \A d1, d2 \in 0..2 :
              \A k1 \in 1..Len(LevelList(d1)) : \A k2 \in 1..Len(LevelList(d2)) :
                  LevelList(d1)[k1].id = LevelList(d2)[k2].id =>
                      d1 = d2 /\ k1 = k2

---------------------------------------------------------------------------
(* The loader on a source that fails part-way: a stretch of the file does
   not decode, load raises, the file is repaired and load is called
   again. *)

MaxStored == 3      \* load is called while the lists hold fewer regions

ReadPool == {WellFormedRow, TwoRingRow, OneTokenCenterRow, SixFieldRow,
             ShortRow, UndecodableRow}

InitRead ==
    /\ source \in SeqsUpTo(ReadPool, MaxRows)
    /\ srcOpen = TRUE
    /\ regions = <<>>
    /\ provinces = <<>>
    /\ cities = <<>>
    /\ districts = <<>>
    /\ loaded = FALSE
    /\ hasQuery = FALSE
    /\ tracks = <<>>
    /\ NoThreads
    /\ op = "init"
    /\ arg = <<>>
    /\ ret = <<>>
    /\ outcome = "ok"
    /\ opens = 0

\* The environment repairs the file a load has failed on: the stretch that
\* does not decode is cut out, the records stay.
SourceRepair ==
    /\ ~loaded
    /\ Delivered(source) # source
    /\ source' = SelectSeq(source, LAMBDA row : ~Undecodable(row))
    /\ op' = "env"
    /\ arg' = <<>>
    /\ ret' = <<>>
    /\ outcome' = "ok"
    /\ opens' = 0
    /\ UNCHANGED <<srcOpen, storeVars, hasQuery, tracks, pc, pos>>

\* loader.load(), called again after a failure; every failed call adds the
\* records in front of the failure to the lists once more.
LoadAgain ==
    /\ Len(provinces) + Len(cities) + Len(districts) < MaxStored
    /\ Load

NextRead == LoadAgain \/ SourceRepair \/ SourceToggle

SpecRead == InitRead /\ [][NextRead]_vars

\* The records of the source that load keeps at a level.
KeptAt(deep) ==
    {k \in 1..Len(source) :
        /\ ~Undecodable(source[k])
        /\ Accepted(source[k])
        /\ source[k][3].v = deep}

\* C29: if load fails part-way through reading the source, after some
\* records were stored, the store is left as it was before the call, with
\* no regions and not loaded, so that a retried load that succeeds holds
\* each source record exactly once in its level list.
C29_FailedLoadLeavesNothing ==
    /\ (op = "load" /\ outcome = "error") =>
          /\ ~loaded
          /\ regions = <<>>
          /\ provinces = <<>> /\ cities = <<>> /\ districts = <<>>
    /\ loaded =>
          \A deep \in 0..2 : Len(LevelList(deep)) = Cardinality(KeptAt(deep))

=============================================================================
